---- MODULE Spec2Model ----
(***************************************************************************)
(* A model of magnum_cluster_api/driver.py (BaseDriver): the lifecycle     *)
(* entry points of the Cluster API driver for Magnum.                      *)
(*                                                                         *)
(* A status string is modelled by its list of "_"-separated tokens, so     *)
(* that status.split("_")[0] is the first token and f"{action}_COMPLETE"   *)
(* is <<action, "COMPLETE">>.  A handler is modelled by the list of the    *)
(* effects it performs, in program order (an "event" per statement that    *)
(* reads or writes something outside the handler's locals); an action      *)
(* executes that list, or a prefix of it when an external call raises.     *)
(***************************************************************************)
EXTENDS Naturals, Sequences, FiniteSets, TLC

\* Bounds of the model.
MaxWorkers == 2
MaxPolledWorkers == 1
MaxMachines == 2
MaxNodeCount == 2
MaxRequests == 1

VARIABLES
    cluster,     \* the Magnum cluster object handed to the driver
    db,          \* the cluster record as last persisted by cluster.save()
    nodegroups,  \* cluster.nodegroups, in the caller's order
    k8s,         \* resources present in the management cluster
    deleting,    \* resources whose deletion was requested and is not finalized
    credential,  \* an application credential named cluster.uuid exists
    machines,    \* the Machine objects of the management cluster
    log,         \* what the last driver call did
    requests     \* lifecycle requests the conductor made after the creation

vars ==
    <<cluster, db, nodegroups, k8s, deleting, credential, machines, log, requests>>

None == "None"

----------------------------------------------------------------------------
\* Status strings.

Verbs == {"CREATE", "UPDATE", "DELETE"}

CREATE_IN_PROGRESS == <<"CREATE", "IN", "PROGRESS">>
UPDATE_IN_PROGRESS == <<"UPDATE", "IN", "PROGRESS">>
DELETE_IN_PROGRESS == <<"DELETE", "IN", "PROGRESS">>
CREATE_COMPLETE == <<"CREATE", "COMPLETE">>
UPDATE_COMPLETE == <<"UPDATE", "COMPLETE">>
DELETE_COMPLETE == <<"DELETE", "COMPLETE">>

InProgress(verb) == <<verb, "IN", "PROGRESS">>
Complete(verb) == <<verb, "COMPLETE">>
Failed(verb) == <<verb, "FAILED">>

Statuses == {InProgress(v) : v \in Verbs} \cup {Complete(v) : v \in Verbs}
                \cup {Failed(v) : v \in Verbs}

IsInProgress(s) == \E v \in Verbs : s = InProgress(v)
IsComplete(s) == \E v \in Verbs : s = Complete(v)
IsFailed(s) == \E v \in Verbs : s = Failed(v)

----------------------------------------------------------------------------
\* Management resources: a kind (the class of resources.py) and the node
\* group it is built from (0: built from the cluster alone).

Res(kind, ng) == [kind |-> kind, ng |-> ng]

CASecrets ==
    << Res("ApiCertificateAuthoritySecret", 0),
       Res("EtcdCertificateAuthoritySecret", 0),
       Res("FrontProxyCertificateAuthoritySecret", 0),
       Res("ServiceAccountCertificateAuthoritySecret", 0) >>

CloudConfigSecret == Res("CloudConfigSecret", 0)
CapiCluster == Res("Cluster", 0)

Range(seq) == {seq[i] : i \in DOMAIN seq}

\* dict.get(key, default)
Get(d, k, default) == IF k \in DOMAIN d THEN d[k] ELSE default

----------------------------------------------------------------------------
\* Events: one per effect of a handler.

Ev(op, kind, ng, val) == [op |-> op, kind |-> kind, ng |-> ng, val |-> val]

\* The calls that go to the control-plane API, the identity API or the
\* database, and so may raise a transport error.
ExternalOps ==
    { "reload", "exists", "apply", "delete", "credential_create",
      "credential_find", "credential_delete", "save", "ng_save",
      "machine_list", "machine_update" }

Returned(events) == [events |-> events, raised |-> None]
Raised(events, exc) == [events |-> events, raised |-> exc]

\* The program state an event acts on.
State ==
    [ cluster |-> cluster, db |-> db, nodegroups |-> nodegroups, k8s |-> k8s,
      deleting |-> deleting, credential |-> credential, machines |-> machines ]

\* The effect of one event.  apply creates the resource (or merges into it),
\* delete removes it; the top-level Cluster object carries finalizers, so its
\* deletion is only requested and the child control plane completes it.
Exec(S, e) ==
    LET r == Res(e.kind, e.ng) IN
    CASE e.op = "apply" -> [S EXCEPT !.k8s = @ \cup {r}]
      [] e.op = "delete" ->
            IF r = CapiCluster
            THEN [S EXCEPT !.deleting = @ \cup ({r} \cap S.k8s)]
            ELSE [S EXCEPT !.k8s = @ \ {r}]
      [] e.op = "credential_create" -> [S EXCEPT !.credential = TRUE]
      [] e.op = "credential_delete" -> [S EXCEPT !.credential = FALSE]
      [] e.op = "set_status" -> [S EXCEPT !.cluster.status = e.val]
      [] e.op = "set_api_address" -> [S EXCEPT !.cluster.api_address = e.val]
      [] e.op = "set_coe_version" -> [S EXCEPT !.cluster.coe_version = e.val]
      [] e.op = "save" -> [S EXCEPT !.db = S.cluster]
      [] e.op = "ng_set_status" -> [S EXCEPT !.nodegroups[e.ng].status = e.val]
      [] e.op = "ng_set_status_reason" ->
            [S EXCEPT !.nodegroups[e.ng].status_reason = e.val]
      [] e.op = "ng_set_node_count" ->
            [S EXCEPT !.nodegroups[e.ng].node_count = e.val]
      [] e.op = "machine_update" ->
            [S EXCEPT !.machines[e.ng].annotations = e.val]
      [] OTHER -> S

RECURSIVE RunEvents(_, _)
RunEvents(S, events) ==
    IF events = <<>> THEN S
    ELSE RunEvents(Exec(S, Head(events)), Tail(events))

----------------------------------------------------------------------------
\* What the child control plane may report (the inputs of a status refresh).

\* status.conditions of the top-level Cluster object
ConditionLists ==
    { <<>>,
      << [type |-> "ControlPlaneReady", status |-> "True"] >>,
      << [type |-> "ControlPlaneReady", status |-> "False"] >>,
      << [type |-> "InfrastructureReady", status |-> "True"],
         [type |-> "ControlPlaneReady", status |-> "Unknown"] >> }

Endpoints == { [host |-> "10.0.0.5", port |-> "6443"] }

\* status of the KubeadmControlPlane object, without its version (ready and
\* failureMessage may be absent)
KcpStatuses ==
    { <<>>,
      [ready |-> FALSE, failureMessage |-> "quota"],
      [ready |-> TRUE],
      [ready |-> TRUE, failureMessage |-> "quota"] }

Versions == {"v1.25.3"}

\* status.phase of a MachineDeployment; "Pending" stands for any other value
Phases == {"ScalingUp", "ScalingDown", "Running", "Failed", "Unknown", "Pending"}

WorkerIndexes(ngs) == {i \in DOMAIN ngs : ngs[i].role # "master"}

\* What a refresh reads, all of it absent or empty: each action below varies
\* the parts its handler reads.
NothingObserved(ngs) ==
    [ conditions |-> <<>>, endpoint |-> CHOOSE e \in Endpoints : TRUE,
      kcp |-> <<>>, version |-> CHOOSE v \in Versions : TRUE,
      phase |-> [i \in WorkerIndexes(ngs) |-> "Pending"] ]

----------------------------------------------------------------------------
\* update_nodegroup_status

\* object.reload(): a GET of the object, which raises when it is not there.
Reload(S, kind, ng, val) ==
    IF Res(kind, ng) \in S.k8s
    THEN Returned(<< Ev("reload", kind, ng, val) >>)
    ELSE Raised(<<>>, "HTTPError")

ActionOf_create(status) == "CREATE"

\* nodegroup.status.split("_")[0]
ActionOf(status) == status[1]

MasterStatus_failed(action, ready, current) ==
    IF ready THEN Complete(action) ELSE Failed(action)

\* the master branch: COMPLETE when the control plane is ready
MasterStatus(action, ready, current) ==
    IF ready THEN Complete(action) ELSE current

WorkerStatus_default(action, phase, current) ==
    IF phase \in {"ScalingUp", "ScalingDown"} THEN InProgress(action)
    ELSE IF phase = "Running" THEN Complete(action)
    ELSE Failed(action)

\* the worker branch: the status a MachineDeployment phase maps to
WorkerStatus(action, phase, current) ==
    IF phase \in {"ScalingUp", "ScalingDown"} THEN InProgress(action)
    ELSE IF phase = "Running" THEN Complete(action)
    ELSE IF phase \in {"Failed", "Unknown"} THEN Failed(action)
    ELSE current

\* The events of update_nodegroup_status on node group i, and the status the
\* node group has when it returns.  The ng_set_status event carries the status
\* the branch leaves in nodegroup.status (the old one when nothing is assigned).
update_nodegroup_status(S, i, obs) ==
    LET nodegroup == S.nodegroups[i]
        action == ActionOf(nodegroup.status)
    IN  IF nodegroup.role = "master"
        THEN LET kcp == Reload(S, "KubeadmControlPlane", i, obs.kcp)
                 ready == Get(obs.kcp, "ready", FALSE)
                 failure_message == Get(obs.kcp, "failureMessage", None)
                 status == MasterStatus(action, ready, nodegroup.status)
             IN  IF kcp.raised # None
                 THEN [events |-> kcp.events, raised |-> kcp.raised,
                       status |-> nodegroup.status]
                 ELSE [events |-> kcp.events
                           \o << Ev("ng_set_status", "NodeGroup", i, status),
                                 Ev("ng_set_status_reason", "NodeGroup", i,
                                    failure_message),
                                 Ev("ng_save", "NodeGroup", i, None) >>,
                       raised |-> None, status |-> status]
        ELSE LET md == Reload(S, "MachineDeployment", i, obs.phase[i])
                 status == WorkerStatus(action, obs.phase[i], nodegroup.status)
             IN  IF md.raised # None
                 THEN [events |-> md.events, raised |-> md.raised,
                       status |-> nodegroup.status]
                 ELSE [events |-> md.events
                           \o << Ev("ng_set_status", "NodeGroup", i, status),
                                 Ev("ng_save", "NodeGroup", i, None) >>,
                       raised |-> None, status |-> status]

----------------------------------------------------------------------------
\* update_cluster_status

\* {c["type"]: c["status"] for c in conditions}: the last entry of a type wins
StatusMap(conditions) ==
    [ t \in {conditions[j].type : j \in DOMAIN conditions} |->
        LET last == CHOOSE j \in DOMAIN conditions :
                        /\ conditions[j].type = t
                        /\ \A k \in DOMAIN conditions :
                              conditions[k].type = t => k <= j
        IN  conditions[last].status ]

ControlPlaneReady_notFalse(conditions) ==
    Get(StatusMap(conditions), "ControlPlaneReady", None) # "False"

\* not (status_map.get("ControlPlaneReady") != "True")
ControlPlaneReady(conditions) ==
    Get(StatusMap(conditions), "ControlPlaneReady", None) = "True"

\* cluster.api_address before it is set: an address is the list of the parts
\* it is formatted from, and None the empty list
NoAddress == <<>>

\* f"https://{api_endpoint['host']}:{api_endpoint['port']}"
ApiAddress(api_endpoint) ==
    << "https://", api_endpoint.host, ":", api_endpoint.port >>

NodegroupDone_createOnly(status) == status = CREATE_COMPLETE

NodegroupDone_anyTerminal(status) == ~IsInProgress(status)

NodegroupDone_always(status) == TRUE

\* not (ng.status not in ("CREATE_COMPLETE", "UPDATE_COMPLETE"))
NodegroupDone(status) == status \in {CREATE_COMPLETE, UPDATE_COMPLETE}

\* The loop over cluster.nodegroups, from node group i on: its events, and
\* whether it ran to its end (no return, no exception).
RECURSIVE NodegroupLoop(_, _, _)
NodegroupLoop(S, i, obs) ==
    IF i > Len(S.nodegroups)
    THEN [events |-> <<>>, raised |-> None, completed |-> TRUE]
    ELSE LET ng == update_nodegroup_status(S, i, obs) IN
         IF ng.raised # None \/ ~NodegroupDone(ng.status)
         THEN [events |-> ng.events, raised |-> ng.raised, completed |-> FALSE]
         ELSE LET kcp == IF S.nodegroups[i].role = "master"
                         THEN << Ev("reload", "KubeadmControlPlane", i,
                                    obs.version),
                                 Ev("set_coe_version", "Cluster", 0,
                                    obs.version) >>
                         ELSE <<>>
                  rest == NodegroupLoop(S, i + 1, obs)
              IN  [events |-> ng.events \o kcp \o rest.events,
                   raised |-> rest.raised, completed |-> rest.completed]

\* cluster.status in ("CREATE_IN_PROGRESS", "UPDATE_IN_PROGRESS")
InProgressBlock(status) == status \in {CREATE_IN_PROGRESS, UPDATE_IN_PROGRESS}

\* The observations that differ in what update_nodegroup_status reads of
\* node group i.
NodegroupObservations(S, i, obs) ==
    IF S.nodegroups[i].role = "master"
    THEN {[obs EXCEPT !.kcp = kcp] : kcp \in KcpStatuses}
    ELSE {[obs EXCEPT !.phase[i] = phase] : phase \in Phases}

\* The observations that differ in what the loop reads from node group i on.
RECURSIVE LoopObservations(_, _, _)
LoopObservations(S, i, obs) ==
    IF i > Len(S.nodegroups) THEN {obs}
    ELSE UNION { LET ng == update_nodegroup_status(S, i, o) IN
                 IF ng.raised = None /\ NodegroupDone(ng.status)
                 THEN LoopObservations(S, i + 1, o)
                 ELSE {o} : o \in NodegroupObservations(S, i, obs) }

\* The observations that differ in what update_cluster_status reads.
ClusterObservations(S) ==
    IF ~InProgressBlock(S.cluster.status) \/ CapiCluster \notin S.k8s
    THEN {NothingObserved(S.nodegroups)}
    ELSE
    UNION { IF ControlPlaneReady(conditions)
            THEN UNION { LoopObservations(S, 1,
                            [NothingObserved(S.nodegroups) EXCEPT
                                !.conditions = conditions, !.endpoint = endpoint,
                                !.version = version]) :
                         endpoint \in Endpoints, version \in Versions }
            ELSE {[NothingObserved(S.nodegroups) EXCEPT !.conditions = conditions]} :
            conditions \in ConditionLists }

CompletedStatus_restart(status) ==
    IF status = CREATE_IN_PROGRESS THEN UPDATE_IN_PROGRESS
    ELSE IF status = UPDATE_IN_PROGRESS THEN UPDATE_COMPLETE
    ELSE status

CompletedStatus_create(status) ==
    IF status = CREATE_IN_PROGRESS THEN CREATE_COMPLETE
    ELSE IF status = UPDATE_IN_PROGRESS THEN CREATE_COMPLETE
    ELSE status

\* the two assignments that end the first block
CompletedStatus(status) ==
    LET s1 == IF status = CREATE_IN_PROGRESS THEN CREATE_COMPLETE ELSE status
    IN  IF s1 = UPDATE_IN_PROGRESS THEN UPDATE_COMPLETE ELSE s1

\* The first block: its events, whether the handler returned or raised in
\* it, and cluster.status after it.
StatusBlock(S, obs) ==
    IF ~InProgressBlock(S.cluster.status)
    THEN [events |-> <<>>, raised |-> None, returned |-> FALSE,
          status |-> S.cluster.status]
    ELSE
    LET capi == Reload(S, "Cluster", 0, obs.conditions) IN
    IF capi.raised # None
    THEN [events |-> <<>>, raised |-> capi.raised, returned |-> TRUE,
          status |-> S.cluster.status]
    ELSE IF ~ControlPlaneReady(obs.conditions)
    THEN [events |-> capi.events, raised |-> None, returned |-> TRUE,
          status |-> S.cluster.status]
    ELSE
    LET loop == NodegroupLoop(S, 1, obs)
        address == << Ev("set_api_address", "Cluster", 0,
                         ApiAddress(obs.endpoint)) >>
        status == CompletedStatus(S.cluster.status)
    IN  IF ~loop.completed
        THEN [events |-> capi.events \o address \o loop.events,
              raised |-> loop.raised, returned |-> TRUE,
              status |-> S.cluster.status]
        ELSE [events |-> capi.events \o address \o loop.events
                  \o << Ev("set_status", "Cluster", 0, status),
                        Ev("save", "Cluster", 0, None) >>,
              raised |-> None, returned |-> FALSE, status |-> status]

\* cluster.status == "DELETE_IN_PROGRESS"
DeleteBlock(status) == status = DELETE_IN_PROGRESS

StillExists_never(S) == FALSE

\* capi_cluster.exists()
StillExists(S) == CapiCluster \in S.k8s

RevokeCredential_findOnly(S) ==
    << Ev("credential_find", "Credential", 0,
          IF S.credential THEN "Found" ELSE "NotFound") >>

\* find(name=cluster.uuid, user=cluster.user_id).delete(), NotFound swallowed
RevokeCredential(S) ==
    IF S.credential
    THEN << Ev("credential_find", "Credential", 0, "Found"),
            Ev("credential_delete", "Credential", 0, None) >>
    ELSE << Ev("credential_find", "Credential", 0, "NotFound") >>

DeleteSecrets ==
    << Ev("delete", "CloudConfigSecret", 0, None) >>
        \o [j \in DOMAIN CASecrets |-> Ev("delete", CASecrets[j].kind, 0, None)]

\* The events of update_cluster_status and the exception it ends with, if any.
update_cluster_status(S, obs) ==
    LET first == StatusBlock(S, obs) IN
    IF first.returned \/ ~DeleteBlock(first.status)
    THEN [events |-> first.events, raised |-> first.raised]
    ELSE LET exists == << Ev("exists", "Cluster", 0, StillExists(S)) >> IN
         IF StillExists(S)
         THEN Returned(first.events \o exists)
         ELSE Returned(first.events \o exists \o RevokeCredential(S)
                  \o DeleteSecrets
                  \o << Ev("set_status", "Cluster", 0, DELETE_COMPLETE),
                        Ev("save", "Cluster", 0, None) >>)

----------------------------------------------------------------------------
\* create_cluster, create_nodegroup, update_nodegroup, delete_nodegroup,
\* delete_cluster

Apply(kind, ng) == Ev("apply", kind, ng, None)
Delete(kind, ng) == Ev("delete", kind, ng, None)

IssueCredential_none(S) == Returned(<<>>)

IssueCredential_reuse(S) ==
    Returned(<< Ev("credential_create", "Credential", 0, None) >>)

\* application_credentials.create(user=..., name=cluster.uuid, ...): the
\* identity API refuses a second credential of the same name for the user.
IssueCredential(S) ==
    IF S.credential
    THEN Raised(<<>>, "Conflict")
    ELSE Returned(<< Ev("credential_create", "Credential", 0, None) >>)

\* utils.get_cluster_label_as_bool(cluster, "auto_healing_enabled", True)
AutoHealingEnabled(labels) == Get(labels, "auto_healing_enabled", TRUE)

LabelSets ==
    { <<>>, [auto_healing_enabled |-> TRUE], [auto_healing_enabled |-> FALSE] }

_apply_cluster(labels) ==
    IF AutoHealingEnabled(labels)
    THEN << Apply("MachineHealthCheck", 0) >>
    ELSE << Delete("MachineHealthCheck", 0) >>

create_nodegroup_sharedTemplate(S, i) ==
    << Apply("OpenStackMachineTemplate", 0) >>
        \o (IF S.nodegroups[i].role = "master"
            THEN << Apply("KubeadmControlPlane", i) >>
            ELSE << Apply("KubeadmConfigTemplate", 0),
                    Apply("MachineDeployment", i) >>)

create_nodegroup(S, i) ==
    << Apply("OpenStackMachineTemplate", i) >>
        \o (IF S.nodegroups[i].role = "master"
            THEN << Apply("KubeadmControlPlane", i) >>
            ELSE << Apply("KubeadmConfigTemplate", 0),
                    Apply("MachineDeployment", i) >>)

RECURSIVE CreateNodegroups(_, _)
CreateNodegroups(S, i) ==
    IF i > Len(S.nodegroups) THEN <<>>
    ELSE create_nodegroup(S, i) \o CreateNodegroups(S, i + 1)

create_cluster(S, labels) ==
    LET before ==
            << Apply("Namespace", 0),
               Apply("CloudControllerManagerConfigMap", 0),
               Apply("CloudControllerManagerClusterResourceSet", 0),
               Apply("CalicoConfigMap", 0),
               Apply("CalicoClusterResourceSet", 0),
               Apply("CinderCSIConfigMap", 0),
               Apply("CinderCSIClusterResourceSet", 0) >>
        credential_ == IssueCredential(S)
    IN  IF credential_.raised # None
        THEN Raised(before, credential_.raised)
        ELSE Returned(
                before \o credential_.events
                    \o << Apply("CloudConfigSecret", 0) >>
                    \o [j \in DOMAIN CASecrets |-> Apply(CASecrets[j].kind, 0)]
                    \o CreateNodegroups(S, 1)
                    \o << Apply("OpenStackCluster", 0), Apply("Cluster", 0) >>
                    \o _apply_cluster(labels))

update_nodegroup(S, i) == << Apply("MachineDeployment", i) >>

delete_nodegroup(S, i) ==
    (IF S.nodegroups[i].role # "master"
     THEN << Delete("MachineDeployment", i), Delete("KubeadmConfigTemplate", 0) >>
     ELSE <<>>)
        \o << Delete("OpenStackMachineTemplate", i) >>

delete_cluster_cascade(S) ==
    Returned(<< Delete("Cluster", 0), Delete("CloudConfigSecret", 0) >>)

delete_cluster(S) == Returned(<< Delete("Cluster", 0) >>)

\* update_cluster, upgrade_cluster and the federation operations
Unsupported == Raised(<<>>, "NotImplementedError")

----------------------------------------------------------------------------
\* resize_cluster

\* the label the driver selects machines by, and the annotation it sets
SelectorLabel == "cluster.x-self.k8s_api.io/deployment-name"
DeleteAnnotation == "cluster.x-self.k8s_api.io/delete-machine"

\* the label Cluster API puts on the machines of a MachineDeployment, and the
\* annotation by which it picks the machine to remove on scale-down
CapiDeploymentLabel == "cluster.x-k8s.io/deployment-name"
CapiDeleteAnnotation == "cluster.x-k8s.io/delete-machine"

\* resources.name_from_node_group(cluster, nodegroup)
name_from_node_group(i) == [cluster |-> "uuid", nodegroup |-> i]

\* cluster.default_ng_worker: the first worker node group
default_ng_worker(ngs) ==
    CHOOSE i \in WorkerIndexes(ngs) : \A j \in WorkerIndexes(ngs) : i <= j

\* Machine.objects(api).filter(namespace=..., selector={label: name})
SelectMachines(S, label, name) ==
    SelectSeq([m \in DOMAIN S.machines |-> m],
              LAMBDA m : /\ label \in DOMAIN S.machines[m].labels
                         /\ S.machines[m].labels[label] = name)

\* machine.obj["spec"]["providerID"].split("/")[-1]
InstanceUuid(providerID) == providerID[Len(providerID)]

\* setdefault("annotations", {}) and annotations[key] = "yes"
Annotate(annotations, key) ==
    [k \in DOMAIN annotations \cup {key} |->
        IF k = key THEN "yes" ELSE annotations[k]]

RECURSIVE MarkMachines(_, _, _)
MarkMachines(S, selected, nodes_to_remove) ==
    IF selected = <<>> THEN <<>>
    ELSE LET m == Head(selected)
             instance_uuid == InstanceUuid(S.machines[m].providerID)
         IN  (IF instance_uuid \in nodes_to_remove
              THEN << Ev("machine_update", "Machine", m,
                         Annotate(S.machines[m].annotations, DeleteAnnotation)) >>
              ELSE <<>>)
                 \o MarkMachines(S, Tail(selected), nodes_to_remove)

\* nodegroup = 0 stands for nodegroup=None
resize_cluster(S, node_count, nodes_to_remove, nodegroup) ==
    LET i == IF nodegroup = 0 THEN default_ng_worker(S.nodegroups) ELSE nodegroup
        selected == SelectMachines(S, SelectorLabel, name_from_node_group(i))
    IN  Returned(
            (IF nodes_to_remove # {}
             THEN << Ev("machine_list", "Machine", i, selected) >>
                      \o MarkMachines(S, selected, nodes_to_remove)
             ELSE <<>>)
                \o << Ev("ng_set_node_count", "NodeGroup", i, node_count) >>
                \o update_nodegroup(S, i))

----------------------------------------------------------------------------
\* Driver calls.

NoCall == [op |-> None, arg |-> None, events |-> <<>>, raised |-> None]

\* What a handler that would perform `run` may end up doing: all of it, or
\* the events before an external call that raises a transport error.
Outcomes(run) ==
    {run} \cup
    { Raised(SubSeq(run.events, 1, k - 1), "TransportError") :
        k \in {j \in DOMAIN run.events : run.events[j].op \in ExternalOps} }

\* The driver is called from one thread: a call starts when the last one has
\* returned to its caller.
Idle == log = NoCall

\* The handler does what outcome r says, and the call is logged.
Do(op, arg, r) ==
    \E T \in {RunEvents(State, r.events)} :
        /\ cluster' = T.cluster
        /\ db' = T.db
        /\ nodegroups' = T.nodegroups
        /\ k8s' = T.k8s
        /\ deleting' = T.deleting
        /\ credential' = T.credential
        /\ machines' = T.machines
        /\ log' = [op |-> op, arg |-> arg, events |-> r.events, raised |-> r.raised]

Call(op, arg, run) == \E r \in Outcomes(run) : Do(op, arg, r)

\* The call returns (or its exception reaches the caller).  The caller drops
\* the cluster object it passed: the next call gets the persisted record.
Return ==
    /\ ~Idle
    /\ log' = NoCall
    /\ cluster' = db
    /\ UNCHANGED <<db, nodegroups, k8s, deleting, credential, machines, requests>>

CreateCluster ==
    /\ Idle
    /\ UNCHANGED requests
    /\ \E labels \in LabelSets :
        \E run \in {create_cluster(State, labels)} :
          Call("create_cluster", labels, run)

UpdateClusterStatus ==
    /\ Idle
    /\ UNCHANGED requests
    /\ \E obs \in ClusterObservations(State) :
        \E run \in {update_cluster_status(State, obs)} :
          Call("update_cluster_status", None, run)

UpdateNodegroupStatus ==
    /\ Idle
    /\ UNCHANGED requests
    /\ \E i \in DOMAIN nodegroups :
        \E obs \in NodegroupObservations(State, i, NothingObserved(nodegroups)) :
          \E ng \in {update_nodegroup_status(State, i, obs)} :
            Call("update_nodegroup_status", i,
                 [events |-> ng.events, raised |-> ng.raised])

DeleteCluster ==
    /\ Idle
    /\ UNCHANGED requests
    /\ Call("delete_cluster", None, delete_cluster(State))

CreateNodegroup ==
    /\ Idle
    /\ UNCHANGED requests
    /\ \E i \in DOMAIN nodegroups :
          Call("create_nodegroup", i, Returned(create_nodegroup(State, i)))

UpdateNodegroup ==
    /\ Idle
    /\ UNCHANGED requests
    /\ \E i \in DOMAIN nodegroups :
          Call("update_nodegroup", i, Returned(update_nodegroup(State, i)))

DeleteNodegroup ==
    /\ Idle
    /\ UNCHANGED requests
    /\ \E i \in DOMAIN nodegroups :
          Call("delete_nodegroup", i, Returned(delete_nodegroup(State, i)))

UUIDs == {"abc123", "def456"}

\* The conductor forwards a resize request for a worker node group, or for
\* none, which stands for the default one.
ResizeCluster ==
    /\ Idle
    /\ requests < MaxRequests
    /\ requests' = requests + 1
    /\ \E node_count \in 1..MaxNodeCount, nodes_to_remove \in SUBSET UUIDs,
          nodegroup \in {0} \cup WorkerIndexes(nodegroups) :
        \E run \in {resize_cluster(State, node_count, nodes_to_remove, nodegroup)} :
          Call("resize_cluster",
               [node_count |-> node_count, nodes_to_remove |-> nodes_to_remove,
                nodegroup |-> nodegroup],
               run)

UnsupportedOps ==
    { "update_cluster", "upgrade_cluster", "create_federation",
      "update_federation", "delete_federation" }

UnsupportedCall ==
    /\ Idle
    /\ UNCHANGED requests
    /\ \E op \in UnsupportedOps : Call(op, None, Unsupported)

----------------------------------------------------------------------------
\* The driver's surroundings: the child control plane, and Magnum's conductor
\* and periodic task, which own the status between driver calls.

\* The child control plane finalizes a requested deletion.
FinalizeDeletion ==
    /\ Idle
    /\ \E r \in deleting :
          /\ k8s' = k8s \ {r}
          /\ deleting' = deleting \ {r}
    /\ UNCHANGED <<cluster, db, nodegroups, credential, machines, log, requests>>

\* A new lifecycle call on a settled cluster (resize, node group create or
\* delete): the conductor marks the node group and the cluster.
RequestUpdate ==
    /\ Idle
    /\ requests < MaxRequests
    /\ requests' = requests + 1
    /\ cluster.status \in {CREATE_COMPLETE, UPDATE_COMPLETE}
    /\ \E i \in DOMAIN nodegroups, verb \in Verbs :
          nodegroups' = [nodegroups EXCEPT ![i].status = InProgress(verb)]
    /\ cluster' = [cluster EXCEPT !.status = UPDATE_IN_PROGRESS]
    /\ db' = cluster'
    /\ UNCHANGED <<k8s, deleting, credential, machines, log>>

\* A node group create, update or delete request: the conductor marks the
\* node group.
RequestNodegroup ==
    /\ Idle
    /\ requests < MaxRequests
    /\ requests' = requests + 1
    /\ \E i \in DOMAIN nodegroups, verb \in Verbs :
          nodegroups' = [nodegroups EXCEPT ![i].status = InProgress(verb)]
    /\ UNCHANGED <<cluster, db, k8s, deleting, credential, machines, log>>

\* A cluster delete request.
RequestDelete ==
    /\ Idle
    /\ requests < MaxRequests
    /\ requests' = requests + 1
    /\ cluster.status # DELETE_IN_PROGRESS
    /\ cluster' = [cluster EXCEPT !.status = DELETE_IN_PROGRESS]
    /\ db' = cluster'
    /\ UNCHANGED <<nodegroups, k8s, deleting, credential, machines, log>>

\* The conductor (a driver call raised) or the periodic task (a timeout)
\* gives the operation up.
ReportFailure ==
    /\ Idle
    /\ IsInProgress(cluster.status)
    /\ cluster' = [cluster EXCEPT !.status = Failed(ActionOf(cluster.status))]
    /\ db' = cluster'
    /\ UNCHANGED <<nodegroups, k8s, deleting, credential, machines, log, requests>>

----------------------------------------------------------------------------
\* Initial states and specifications.

\* The orders of one master and 1..workers worker node groups.
Topologies(workers) ==
    { roles \in UNION { [1..n -> {"master", "worker"}] : n \in 2..(workers + 1) } :
        Cardinality({i \in DOMAIN roles : roles[i] = "master"}) = 1 }

\* A cluster as the conductor hands it to create_cluster.
Fresh(roles) ==
    LET c == [status |-> CREATE_IN_PROGRESS, api_address |-> NoAddress,
              coe_version |-> None]
    IN  [ cluster |-> c, db |-> c,
          nodegroups |-> [i \in DOMAIN roles |->
                            [role |-> roles[i], status |-> CREATE_IN_PROGRESS,
                             status_reason |-> None, node_count |-> 1]],
          k8s |-> {}, deleting |-> {}, credential |-> FALSE, machines |-> <<>> ]

\* The same cluster after a create_cluster call that went through.
Created(roles) ==
    RunEvents(Fresh(roles), create_cluster(Fresh(roles), <<>>).events)

Start(T) ==
    /\ cluster = T.cluster
    /\ db = T.db
    /\ nodegroups = T.nodegroups
    /\ k8s = T.k8s
    /\ deleting = T.deleting
    /\ credential = T.credential
    /\ machines = T.machines
    /\ log = NoCall
    /\ requests = 0

\* The life of a created cluster: the periodic update_cluster_status, the
\* conductor's update and delete requests, delete_cluster, and the child
\* control plane finalizing the deletion.
Init == \E roles \in Topologies(MaxPolledWorkers) : Start(Created(roles))

Next ==
    \/ UpdateClusterStatus
    \/ DeleteCluster
    \/ FinalizeDeletion
    \/ RequestUpdate
    \/ RequestDelete
    \/ ReportFailure
    \/ Return

Spec == Init /\ [][Next]_vars

\* Node group refresh: update_nodegroup_status on the node groups of a created
\* cluster.
NextNodegroup ==
    \/ UpdateNodegroupStatus
    \/ RequestNodegroup
    \/ Return

InitNodegroup == \E roles \in Topologies(MaxWorkers) : Start(Created(roles))

SpecNodegroup == InitNodegroup /\ [][NextNodegroup]_vars

\* Creation: create_cluster on a cluster the conductor has just recorded, and
\* the operations the driver does not support.
InitCreate == \E roles \in Topologies(MaxWorkers) : Start(Fresh(roles))

NextCreate ==
    \/ CreateCluster
    \/ UnsupportedCall
    \/ Return

SpecCreate == InitCreate /\ [][NextCreate]_vars

\* Node group operations on a created cluster.
NextNodegroupOps ==
    \/ CreateNodegroup
    \/ UpdateNodegroup
    \/ DeleteNodegroup
    \/ Return

SpecNodegroupOps == InitNodegroup /\ [][NextNodegroupOps]_vars

\* Resize: resize_cluster on a created cluster whose worker node groups have
\* machines.
ProviderIDs ==
    { << "openstack:", "", "", "abc123" >>,
      << "openstack:", "", "", "def456" >>,
      << "openstack:", "", "abc123", "ghi789" >> }

\* The machines of the MachineDeployment of node group i, as Cluster API
\* labels them, and machines that carry the driver's selector label as well.
MachinesOf(i) ==
    { [labels |-> labels, providerID |-> providerID, annotations |-> <<>>] :
        labels \in { [k \in {CapiDeploymentLabel} |-> name_from_node_group(i)],
                     [k \in {CapiDeploymentLabel, SelectorLabel} |->
                        name_from_node_group(i)] },
        providerID \in ProviderIDs }

RECURSIVE Listed(_)
Listed(ms) ==
    IF ms = {} THEN <<>>
    ELSE LET m == CHOOSE m \in ms : TRUE IN << m >> \o Listed(ms \ {m})

\* The machine lists of the child control plane's namespace: up to
\* MaxMachines distinct machines.
MachineLists(ngs) ==
    { Listed(ms) :
        ms \in { s \in SUBSET UNION {MachinesOf(i) : i \in WorkerIndexes(ngs)} :
                   Cardinality(s) <= MaxMachines } }

\* A created cluster that has completed its creation and that the conductor
\* has marked for the resize.
Settled(T) ==
    [T EXCEPT !.cluster.status = UPDATE_IN_PROGRESS,
              !.db.status = UPDATE_IN_PROGRESS,
              !.nodegroups = [i \in DOMAIN @ |->
                                [@[i] EXCEPT !.status = CREATE_COMPLETE]]]

InitResize ==
    \E roles \in Topologies(MaxPolledWorkers) :
        \E ms \in MachineLists(Created(roles).nodegroups) :
            Start([Settled(Created(roles)) EXCEPT !.machines = ms])

NextResize ==
    \/ ResizeCluster
    \/ Return

SpecResize == InitResize /\ [][NextResize]_vars

\* Polling: update_cluster_status called again and again on a cluster whose
\* child resources have settled: the Cluster object reports
\* ControlPlaneReady = "True", the KubeadmControlPlane is ready, every
\* MachineDeployment is Running, and no call fails in transport.
ReadyObservations(ngs) ==
    { [NothingObserved(ngs) EXCEPT
          !.conditions = << [type |-> "ControlPlaneReady", status |-> "True"] >>,
          !.kcp = kcp,
          !.phase = [i \in WorkerIndexes(ngs) |-> "Running"]] :
        kcp \in {k \in KcpStatuses : Get(k, "ready", FALSE)} }

PollSettled ==
    /\ Idle
    /\ UNCHANGED requests
    /\ \E obs \in ReadyObservations(nodegroups) :
        \E run \in {update_cluster_status(State, obs)} :
          Do("update_cluster_status", None, run)

\* A created cluster under creation or update, its node groups at any stage
\* of a creation or an update.
Progressing(T) ==
    { [T EXCEPT !.cluster.status = status, !.db.status = status,
                !.nodegroups = [i \in DOMAIN @ |-> [@[i] EXCEPT !.status = of[i]]]] :
        status \in {CREATE_IN_PROGRESS, UPDATE_IN_PROGRESS},
        of \in [DOMAIN T.nodegroups ->
                  {s \in Statuses : ActionOf(s) \in {"CREATE", "UPDATE"}}] }

\* A created cluster under deletion: the deletion of the Cluster object is
\* requested or done, and earlier refreshes may have revoked the credential
\* and deleted some of the secrets.
Leaving(T) ==
    { [T EXCEPT !.cluster.status = DELETE_IN_PROGRESS,
                !.db.status = DELETE_IN_PROGRESS,
                !.k8s = @ \ gone,
                !.deleting = {CapiCluster} \ gone,
                !.credential = c] :
        c \in BOOLEAN,
        gone \in { g \in SUBSET ({CapiCluster, CloudConfigSecret} \cup Range(CASecrets)) :
                     g # {} => CapiCluster \in g } }

InitPolling ==
    \E roles \in Topologies(MaxPolledWorkers) :
        \E T \in Progressing(Created(roles)) \cup Leaving(Created(roles)) : Start(T)

NextPolling ==
    \/ PollSettled
    \/ FinalizeDeletion
    \/ Return

\* The periodic task keeps calling and calls return; the child control plane
\* completes a deletion it was asked for (it does so on its own, between
\* calls: the Cluster object is eventually gone for good).
SpecPolling ==
    /\ InitPolling
    /\ [][NextPolling]_vars
    /\ WF_vars(PollSettled)
    /\ WF_vars(Return)
    /\ SF_vars(FinalizeDeletion)

----------------------------------------------------------------------------
\* Properties.

\* A step that is a call of update_cluster_status (a refresh).
RefreshStep == Idle /\ log'.op = "update_cluster_status"

\* A step that is a call of update_nodegroup_status on node group log'.arg.
NodegroupRefreshStep == Idle /\ log'.op = "update_nodegroup_status"

Has(events, op, kind) ==
    \E j \in DOMAIN events : events[j].op = op /\ events[j].kind = kind

Count(events, op, kind) ==
    Cardinality({j \in DOMAIN events : events[j].op = op /\ events[j].kind = kind})

\* The conditions list reports ControlPlaneReady with the value "True".
ReportsReady(conditions) ==
    \E k \in DOMAIN conditions :
        /\ conditions[k].type = "ControlPlaneReady"
        /\ conditions[k].status = "True"

SecretsOf == Range(CASecrets) \cup {CloudConfigSecret}

\* The status changes a refresh may make.
AllowedMoves ==
    { << <<"CREATE", "IN", "PROGRESS">>, <<"CREATE", "COMPLETE">> >>,
      << <<"UPDATE", "IN", "PROGRESS">>, <<"UPDATE", "COMPLETE">> >>,
      << <<"DELETE", "IN", "PROGRESS">>, <<"DELETE", "COMPLETE">> >> }

\* C1: a refresh leaves the cluster status (in memory and as persisted) as it
\* was, or moves it from CREATE_IN_PROGRESS to CREATE_COMPLETE, from
\* UPDATE_IN_PROGRESS to UPDATE_COMPLETE or from DELETE_IN_PROGRESS to
\* DELETE_COMPLETE; so a terminal status survives any sequence of refreshes.
C1_StatusMonotonic ==
    [][ RefreshStep =>
          /\ cluster'.status = cluster.status
                \/ <<cluster.status, cluster'.status>> \in AllowedMoves
          /\ db'.status = db.status
                \/ <<db.status, db'.status>> \in AllowedMoves ]_vars

\* A refresh has just moved an UPDATE_IN_PROGRESS cluster to UPDATE_COMPLETE.
C1_Witness ==
    /\ log.op = "update_cluster_status"
    /\ \E j \in DOMAIN log.events :
          /\ log.events[j].op = "set_status"
          /\ log.events[j].val = UPDATE_COMPLETE
    /\ db.status = UPDATE_COMPLETE

\* C2: a refresh that sets the status to CREATE_COMPLETE or UPDATE_COMPLETE
\* read ControlPlaneReady = "True" from the top-level Cluster object and
\* refreshed every node group, each of which is *_COMPLETE afterwards.
C2_CompleteOnlyWhenAllReady ==
    [][ (/\ RefreshStep
         /\ cluster'.status # cluster.status
         /\ cluster'.status \in {CREATE_COMPLETE, UPDATE_COMPLETE}) =>
          /\ \E j \in DOMAIN log'.events :
                /\ log'.events[j].op = "reload"
                /\ log'.events[j].kind = "Cluster"
                /\ ReportsReady(log'.events[j].val)
          /\ \A i \in DOMAIN nodegroups' :
                /\ \E j \in DOMAIN log'.events :
                      log'.events[j].op = "ng_save" /\ log'.events[j].ng = i
                /\ nodegroups'[i].status[2] = "COMPLETE"
                /\ Len(nodegroups'[i].status) = 2 ]_vars

\* A refresh has just completed the creation of a cluster of two node groups.
C2_Witness ==
    /\ log.op = "update_cluster_status"
    /\ cluster.status = CREATE_COMPLETE
    /\ Has(log.events, "set_status", "Cluster")
    /\ Len(nodegroups) >= 2

\* C3: a refresh of a DELETE_IN_PROGRESS cluster whose top-level Cluster
\* object still exists revokes no credential, deletes no secret and leaves the
\* status; a refresh revokes the credential only when that object is gone.
C3_DeletionSafety ==
    [][ RefreshStep =>
          /\ (cluster.status = DELETE_IN_PROGRESS /\ CapiCluster \in k8s) =>
                /\ credential' = credential
                /\ k8s' = k8s
                /\ ~Has(log'.events, "credential_delete", "Credential")
                /\ \A j \in DOMAIN log'.events : log'.events[j].op # "delete"
                /\ cluster'.status = DELETE_IN_PROGRESS
                /\ db' = db
          /\ Has(log'.events, "credential_delete", "Credential") =>
                /\ CapiCluster \notin k8s
                /\ \E j \in DOMAIN log'.events :
                      /\ log'.events[j].op = "exists"
                      /\ log'.events[j].val = FALSE ]_vars

\* delete_cluster was called and a refresh has just found the top-level
\* Cluster object still there, with the credential in place.
C3_Witness ==
    /\ log.op = "update_cluster_status"
    /\ log.raised = None
    /\ cluster.status = DELETE_IN_PROGRESS
    /\ CapiCluster \in deleting
    /\ \E j \in DOMAIN log.events :
          log.events[j].op = "exists" /\ log.events[j].val = TRUE
    /\ credential
    /\ SecretsOf \subseteq k8s

\* C4: a refresh of a DELETE_IN_PROGRESS cluster whose top-level Cluster
\* object is gone, when no call it makes fails in transport, returns without
\* an exception whether the credential exists or not, leaves no credential,
\* no cloud-config secret and no certificate-authority secret, and persists
\* DELETE_COMPLETE; and whenever a refresh sets DELETE_COMPLETE the credential
\* and the five secrets are gone.
C4_DeletionCompletes ==
    [][ RefreshStep =>
          /\ (/\ cluster.status = DELETE_IN_PROGRESS
              /\ CapiCluster \notin k8s
              /\ log'.raised # "TransportError") =>
                /\ log'.raised = None
                /\ ~credential'
                /\ SecretsOf \cap k8s' = {}
                /\ cluster'.status = DELETE_COMPLETE
                /\ db'.status = DELETE_COMPLETE
          /\ (cluster'.status = DELETE_COMPLETE /\ cluster.status # DELETE_COMPLETE) =>
                /\ ~credential'
                /\ SecretsOf \cap k8s' = {} ]_vars

\* A refresh has just completed a deletion whose credential was revoked by
\* an earlier refresh: the lookup found nothing.
C4_Witness ==
    /\ log.op = "update_cluster_status"
    /\ log.raised = None
    /\ cluster.status = DELETE_COMPLETE
    /\ db.status = DELETE_COMPLETE
    /\ \E j \in DOMAIN log.events :
          /\ log.events[j].op = "credential_find"
          /\ log.events[j].val = "NotFound"

\* C10: a refresh of a CREATE_IN_PROGRESS or UPDATE_IN_PROGRESS cluster whose
\* top-level Cluster object does not report ControlPlaneReady = "True" leaves
\* the cluster (status, api_address, coe_version), the persisted record and
\* every node group as they were, and saves nothing.
C10_NotReadyChangesNothing ==
    [][ (/\ RefreshStep
         /\ cluster.status \in {CREATE_IN_PROGRESS, UPDATE_IN_PROGRESS}
         /\ \E j \in DOMAIN log'.events :
               /\ log'.events[j].op = "reload"
               /\ log'.events[j].kind = "Cluster"
               /\ ~ReportsReady(log'.events[j].val)) =>
          /\ cluster' = cluster
          /\ db' = db
          /\ nodegroups' = nodegroups
          /\ log'.raised = None
          /\ \A j \in DOMAIN log'.events :
                /\ log'.events[j].op \notin {"save", "ng_save"}
                /\ log'.events[j].kind \notin
                      {"NodeGroup", "KubeadmControlPlane", "MachineDeployment"} ]_vars

\* A refresh of an UPDATE_IN_PROGRESS cluster has just read a Cluster object
\* whose ControlPlaneReady condition is "Unknown".
C10_Witness ==
    /\ log.op = "update_cluster_status"
    /\ cluster.status = UPDATE_IN_PROGRESS
    /\ \E j \in DOMAIN log.events :
          /\ log.events[j].op = "reload"
          /\ log.events[j].kind = "Cluster"
          /\ \E k \in DOMAIN log.events[j].val :
                /\ log.events[j].val[k].type = "ControlPlaneReady"
                /\ log.events[j].val[k].status = "Unknown"

\* C7: a refresh of a worker node group that returns keeps the verb of the
\* status and sets the rest from the MachineDeployment phase: ScalingUp and
\* ScalingDown give IN_PROGRESS, Running gives COMPLETE, Failed and Unknown
\* give FAILED, any other phase leaves the status as it was; the node group
\* is saved in every case.
C7_WorkerRefresh ==
    [][ (/\ NodegroupRefreshStep
         /\ nodegroups[log'.arg].role = "worker"
         /\ log'.raised = None) =>
          LET i == log'.arg
              verb == nodegroups[i].status[1]
              phase == log'.events[1].val
              status == nodegroups'[i].status
          IN  /\ log'.events[1].op = "reload"
              /\ log'.events[1].kind = "MachineDeployment"
              /\ status[1] = verb
              /\ phase \in {"ScalingUp", "ScalingDown"} =>
                    status = <<verb, "IN", "PROGRESS">>
              /\ phase = "Running" => status = <<verb, "COMPLETE">>
              /\ phase \in {"Failed", "Unknown"} => status = <<verb, "FAILED">>
              /\ phase \notin {"ScalingUp", "ScalingDown", "Running", "Failed",
                               "Unknown"} => status = nodegroups[i].status
              /\ log'.events[Len(log'.events)] = Ev("ng_save", "NodeGroup", i, None)
              /\ \A j \in DOMAIN nodegroups : j # i => nodegroups'[j] = nodegroups[j]
        ]_vars

\* A refresh has just read phase Running for a worker node group under
\* update, which is UPDATE_COMPLETE now.
C7_Witness ==
    /\ log.op = "update_nodegroup_status"
    /\ log.raised = None
    /\ nodegroups[log.arg].role = "worker"
    /\ log.events[1].val = "Running"
    /\ nodegroups[log.arg].status = UPDATE_COMPLETE
    /\ requests = 1

\* C8: a refresh of the master node group that returns sets the status to
\* <verb>_COMPLETE exactly when the KubeadmControlPlane reports ready = true
\* and leaves it as it was when ready is false or absent; it sets
\* status_reason to the reported failure message (None when there is none)
\* and saves the node group.
C8_MasterRefresh ==
    [][ (/\ NodegroupRefreshStep
         /\ nodegroups[log'.arg].role = "master"
         /\ log'.raised = None) =>
          LET i == log'.arg
              verb == nodegroups[i].status[1]
              kcp == log'.events[1].val
              ready == "ready" \in DOMAIN kcp /\ kcp["ready"]
          IN  /\ log'.events[1].op = "reload"
              /\ log'.events[1].kind = "KubeadmControlPlane"
              /\ ready => nodegroups'[i].status = <<verb, "COMPLETE">>
              /\ ~ready => nodegroups'[i].status = nodegroups[i].status
              /\ nodegroups'[i].status_reason =
                    IF "failureMessage" \in DOMAIN kcp THEN kcp["failureMessage"]
                    ELSE None
              /\ log'.events[Len(log'.events)] = Ev("ng_save", "NodeGroup", i, None)
        ]_vars

\* A refresh has just read a KubeadmControlPlane that is ready and carries a
\* failure message, for a master node group under update.
C8_Witness ==
    /\ log.op = "update_nodegroup_status"
    /\ log.raised = None
    /\ nodegroups[log.arg].role = "master"
    /\ log.events[1].val = [ready |-> TRUE, failureMessage |-> "quota"]
    /\ nodegroups[log.arg].status = UPDATE_COMPLETE
    /\ nodegroups[log.arg].status_reason = "quota"

NodegroupKinds ==
    { "OpenStackMachineTemplate", "KubeadmControlPlane", "KubeadmConfigTemplate",
      "MachineDeployment" }

\* Event j of the list applies a resource of the kind (for node group ng).
Applies(events, j, kind, ng) ==
    events[j].op = "apply" /\ events[j].kind = kind /\ events[j].ng = ng

\* C5: in what a create_cluster call has done, whether it returned or was
\* cut short: the credential is issued before the CloudConfigSecret is
\* applied and both before any node group resource; the four
\* certificate-authority secrets are applied before the Cluster object; every
\* node group's OpenStackMachineTemplate is applied before the
\* OpenStackCluster object, which is applied before the Cluster object.
C5_DependencyOrder ==
    log.op = "create_cluster" =>
        LET e == log.events IN
        /\ \A j \in DOMAIN e :
              Applies(e, j, "CloudConfigSecret", 0) =>
                  \E c \in 1..(j - 1) : e[c].op = "credential_create"
        /\ \A j \in DOMAIN e :
              (e[j].op = "apply" /\ e[j].kind \in NodegroupKinds) =>
                  \E s \in 1..(j - 1) :
                      /\ Applies(e, s, "CloudConfigSecret", 0)
                      /\ \E c \in 1..(s - 1) : e[c].op = "credential_create"
        /\ \A j \in DOMAIN e :
              Applies(e, j, "Cluster", 0) =>
                  /\ \A ca \in Range(CASecrets) :
                        \E s \in 1..(j - 1) : Applies(e, s, ca.kind, 0)
                  /\ \E o \in 1..(j - 1) : Applies(e, o, "OpenStackCluster", 0)
        /\ \A j \in DOMAIN e :
              Applies(e, j, "OpenStackCluster", 0) =>
                  \A i \in DOMAIN nodegroups :
                      \E t \in 1..(j - 1) :
                          Applies(e, t, "OpenStackMachineTemplate", i)

\* A create_cluster call was cut short after it applied the resources of a
\* worker node group and before it applied the OpenStackCluster object.
C5_Witness ==
    /\ log.op = "create_cluster"
    /\ log.raised = "TransportError"
    /\ Has(log.events, "apply", "MachineDeployment")
    /\ ~Has(log.events, "apply", "OpenStackCluster")

\* C6: a create_cluster call that goes through on a cluster of one master and
\* k worker node groups issues 1 credential, applies the 4
\* certificate-authority secrets and the cloud-config secret once each, k+1
\* OpenStackMachineTemplates, 1 KubeadmControlPlane and k MachineDeployments,
\* and leaves the cluster status (and the whole cluster record) as it was.
C6_CreateCounts ==
    [][ (Idle /\ log'.op = "create_cluster" /\ log'.raised = None) =>
          LET e == log'.events
              k == Cardinality(WorkerIndexes(nodegroups))
          IN  /\ Count(e, "credential_create", "Credential") = 1
              /\ \A ca \in Range(CASecrets) : Count(e, "apply", ca.kind) = 1
              /\ Count(e, "apply", "CloudConfigSecret") = 1
              /\ Count(e, "apply", "OpenStackMachineTemplate") = k + 1
              /\ Cardinality({r \in k8s' : r.kind = "OpenStackMachineTemplate"})
                    = k + 1
              /\ Count(e, "apply", "KubeadmControlPlane") = 1
              /\ Count(e, "apply", "MachineDeployment") = k
              /\ Cardinality({r \in k8s' : r.kind = "MachineDeployment"}) = k
              /\ \A j \in DOMAIN e : e[j].op \notin {"set_status", "save"}
              /\ cluster'.status = cluster.status
              /\ cluster.status = CREATE_IN_PROGRESS
              /\ db' = db ]_vars

\* Scenario A: create_cluster has gone through on a cluster of one master
\* and two worker node groups.
C6_Witness ==
    /\ log.op = "create_cluster"
    /\ log.raised = None
    /\ Len(nodegroups) = 3
    /\ Cardinality(WorkerIndexes(nodegroups)) = 2
    /\ Cardinality({r \in k8s : r.kind = "MachineDeployment"}) = 2
    /\ cluster.status = CREATE_IN_PROGRESS

\* C9: a resize_cluster call that returns marks for deletion (with the
\* annotation Cluster API acts on) exactly the machines of the target node
\* group's MachineDeployment whose providerID ends in a member of
\* nodes_to_remove, leaves every other machine as it was and deletes none;
\* it sets the node group's node_count to the requested value, applies its
\* MachineDeployment again, and leaves the cluster and node group statuses.
C9_ResizeMarksMachines ==
    [][ (Idle /\ log'.op = "resize_cluster" /\ log'.raised = None) =>
          LET a == log'.arg
              workers == {j \in DOMAIN nodegroups : nodegroups[j].role = "worker"}
              i == IF a.nodegroup = 0
                   THEN CHOOSE w \in workers : \A v \in workers : w <= v
                   ELSE a.nodegroup
              OfTarget(m) ==
                  /\ CapiDeploymentLabel \in DOMAIN machines[m].labels
                  /\ machines[m].labels[CapiDeploymentLabel] =
                        [cluster |-> "uuid", nodegroup |-> i]
              Named(m) ==
                  machines[m].providerID[Len(machines[m].providerID)]
                      \in a.nodes_to_remove
          IN  /\ DOMAIN machines' = DOMAIN machines
              /\ \A m \in DOMAIN machines :
                    IF OfTarget(m) /\ Named(m)
                    THEN /\ CapiDeleteAnnotation \in DOMAIN machines'[m].annotations
                         /\ machines'[m].labels = machines[m].labels
                         /\ machines'[m].providerID = machines[m].providerID
                    ELSE machines'[m] = machines[m]
              /\ nodegroups'[i].node_count = a.node_count
              /\ \E j \in DOMAIN log'.events :
                    Applies(log'.events, j, "MachineDeployment", i)
              /\ cluster' = cluster
              /\ \A j \in DOMAIN nodegroups :
                    nodegroups'[j].status = nodegroups[j].status ]_vars

\* C11: delete_cluster requests the deletion of the top-level Cluster object
\* and does nothing else: the credential, the management resources (secrets
\* and node group resources included), the cluster record and the node groups
\* are as they were; and the credential or one of the five secrets goes away
\* only in a refresh that found the Cluster object gone.
C11_DeleteClusterOnly ==
    [][ /\ (Idle /\ log'.op = "delete_cluster") =>
              /\ \A j \in DOMAIN log'.events :
                    log'.events[j].op = "delete" /\ log'.events[j].kind = "Cluster"
              /\ credential' = credential
              /\ k8s' = k8s
              /\ deleting' \subseteq {CapiCluster}
              /\ cluster' = cluster
              /\ db' = db
              /\ nodegroups' = nodegroups
        /\ ((credential /\ ~credential') \/ SecretsOf \cap k8s # SecretsOf \cap k8s') =>
              /\ RefreshStep
              /\ cluster.status = DELETE_IN_PROGRESS
              /\ CapiCluster \notin k8s ]_vars

\* delete_cluster has just returned: the deletion of the Cluster object is
\* requested, the credential and the five secrets are in place.
C11_Witness ==
    /\ log.op = "delete_cluster"
    /\ log.raised = None
    /\ CapiCluster \in deleting
    /\ credential
    /\ SecretsOf \subseteq k8s
    /\ cluster.status = DELETE_IN_PROGRESS

\* C12: a refresh of a CREATE_IN_PROGRESS or UPDATE_IN_PROGRESS cluster that
\* read ControlPlaneReady = "True" and refreshed a node group to a status
\* that is not *_COMPLETE leaves the status, the api_address and the
\* coe_version of the cluster it was given as they were.
C12_SuspendChangesNothing ==
    [][ (/\ RefreshStep
         /\ cluster.status \in {CREATE_IN_PROGRESS, UPDATE_IN_PROGRESS}
         /\ \E j \in DOMAIN log'.events :
               /\ log'.events[j].op = "reload"
               /\ log'.events[j].kind = "Cluster"
               /\ ReportsReady(log'.events[j].val)
         /\ \E i \in DOMAIN nodegroups' :
               /\ \E j \in DOMAIN log'.events :
                     log'.events[j].op = "ng_save" /\ log'.events[j].ng = i
               /\ nodegroups'[i].status[Len(nodegroups'[i].status)] # "COMPLETE") =>
          /\ cluster'.status = cluster.status
          /\ cluster'.api_address = cluster.api_address
          /\ cluster'.coe_version = cluster.coe_version ]_vars

\* C13: a refresh of a CREATE_IN_PROGRESS or UPDATE_IN_PROGRESS cluster that
\* read ControlPlaneReady = "True" and met no exception refreshes and saves
\* every node group of the cluster, those after a node group that is not
\* *_COMPLETE included.
C13_EveryNodegroupRefreshed ==
    [][ (/\ RefreshStep
         /\ cluster.status \in {CREATE_IN_PROGRESS, UPDATE_IN_PROGRESS}
         /\ log'.raised = None
         /\ \E j \in DOMAIN log'.events :
               /\ log'.events[j].op = "reload"
               /\ log'.events[j].kind = "Cluster"
               /\ ReportsReady(log'.events[j].val)) =>
          \A i \in DOMAIN nodegroups :
              /\ \E j \in DOMAIN log'.events :
                    /\ log'.events[j].op = "reload"
                    /\ log'.events[j].ng = i
                    /\ log'.events[j].kind \in {"KubeadmControlPlane", "MachineDeployment"}
              /\ \E j \in DOMAIN log'.events :
                    log'.events[j].op = "ng_save" /\ log'.events[j].ng = i ]_vars

\* C14 (as stated): a node group refresh that returns leaves a terminal
\* status (*_COMPLETE, *_FAILED) as it was, and changes a status only from
\* *_IN_PROGRESS to *_COMPLETE or *_FAILED of the same verb.
C14_TerminalNodegroupKept ==
    [][ (NodegroupRefreshStep /\ log'.raised = None) =>
          LET old == nodegroups[log'.arg].status
              new == nodegroups'[log'.arg].status
          IN  new # old =>
                /\ old = <<old[1], "IN", "PROGRESS">>
                /\ new \in {<<old[1], "COMPLETE">>, <<old[1], "FAILED">>} ]_vars

\* C14 (amended): a node group refresh that returns never changes the verb of
\* the status, and changes the rest only as the observation says: the master's
\* status changes only to <verb>_COMPLETE, when ready is true, so that a
\* master *_COMPLETE status is never changed; a worker's status, terminal or
\* not, changes only to what a phase among ScalingUp, ScalingDown, Running,
\* Failed and Unknown maps to, and is unchanged for any other phase.
C14_NodegroupMoves ==
    [][ (NodegroupRefreshStep /\ log'.raised = None) =>
          LET i == log'.arg
              old == nodegroups[i].status
              new == nodegroups'[i].status
              seen == log'.events[1].val
          IN  /\ new[1] = old[1]
              /\ (nodegroups[i].role = "master" /\ new # old) =>
                    /\ new = <<old[1], "COMPLETE">>
                    /\ "ready" \in DOMAIN seen
                    /\ seen["ready"]
              /\ (nodegroups[i].role = "worker" /\ new # old) =>
                    \/ seen \in {"ScalingUp", "ScalingDown"}
                          /\ new = <<old[1], "IN", "PROGRESS">>
                    \/ seen = "Running" /\ new = <<old[1], "COMPLETE">>
                    \/ seen \in {"Failed", "Unknown"} /\ new = <<old[1], "FAILED">> ]_vars

\* A refresh has just read a KubeadmControlPlane without a ready flag for a
\* master node group that had been refreshed to CREATE_COMPLETE, which it
\* still is.
C14_Witness ==
    /\ log.op = "update_nodegroup_status"
    /\ log.raised = None
    /\ nodegroups[log.arg].role = "master"
    /\ log.events[1].val = <<>>
    /\ nodegroups[log.arg].status = CREATE_COMPLETE

\* C15: with the child resources settled and refresh called again and again
\* without transport errors, a CREATE_IN_PROGRESS cluster whose node groups
\* carry CREATE_ or UPDATE_ statuses is eventually CREATE_COMPLETE (in memory
\* and as persisted), an UPDATE_IN_PROGRESS one UPDATE_COMPLETE, and a
\* DELETE_IN_PROGRESS cluster whose Cluster object goes away DELETE_COMPLETE.
C15_EventualCompletion ==
    /\ (cluster.status = CREATE_IN_PROGRESS) ~>
          (cluster.status = CREATE_COMPLETE /\ db.status = CREATE_COMPLETE)
    /\ (cluster.status = UPDATE_IN_PROGRESS) ~>
          (cluster.status = UPDATE_COMPLETE /\ db.status = UPDATE_COMPLETE)
    /\ (cluster.status = DELETE_IN_PROGRESS) ~>
          (cluster.status = DELETE_COMPLETE /\ db.status = DELETE_COMPLETE)

\* A refresh has just completed an update of a cluster whose node groups
\* were under update, one of them refreshed from UPDATE_FAILED or
\* UPDATE_IN_PROGRESS in this call.
C15_Witness ==
    /\ log.op = "update_cluster_status"
    /\ log.raised = None
    /\ cluster.status = UPDATE_COMPLETE
    /\ db.status = UPDATE_COMPLETE
    /\ \E j \in DOMAIN log.events :
          log.events[j].op = "set_status" /\ log.events[j].val = UPDATE_COMPLETE
    /\ \A i \in DOMAIN nodegroups : nodegroups[i].status = UPDATE_COMPLETE

\* The state update_cluster_status leaves when it is called in state S, reads
\* obs and meets no transport error.
Refreshed(S, obs) == RunEvents(S, update_cluster_status(S, obs).events)

\* C16: between calls, for every observation: a second update_cluster_status
\* that reads what the first one read leaves the cluster, the persisted
\* record, the node groups, the credential and the management resources as
\* the first call left them, whether the caller passes the same cluster
\* object again or the record it loads anew.
C16_RefreshIdempotent ==
    Idle =>
        \A obs \in ClusterObservations(State) :
            \A once \in {Refreshed(State, obs)} :
                /\ Refreshed(once, obs) = once
                /\ Refreshed([once EXCEPT !.cluster = once.db], obs) = once

\* A refresh was called again on a cluster that an earlier refresh had
\* completed, and did nothing.
C16_Witness ==
    /\ log.op = "update_cluster_status"
    /\ log.events = <<>>
    /\ log.raised = None
    /\ cluster.status = CREATE_COMPLETE
    /\ db.status = CREATE_COMPLETE
    /\ requests = 0


\* C17: a call of update_nodegroup or resize_cluster applies no
\* MachineDeployment for a node group whose role is "master".
C17_NoMasterMachineDeployment ==
    [][ (Idle /\ log'.op \in {"update_nodegroup", "resize_cluster"}) =>
            \A j \in DOMAIN log'.events :
                \A i \in DOMAIN nodegroups :
                    Applies(log'.events, j, "MachineDeployment", i) =>
                        nodegroups[i].role # "master" ]_vars

\* The resources create_nodegroup applies for node group i.
ResourcesOf(S, i) ==
    { Res(e.kind, e.ng) : e \in Range(create_nodegroup(S, i)) }

\* C18: a delete_nodegroup call that returns, on a worker node group of a
\* cluster with several worker node groups, removes no resource that
\* create_nodegroup applies for another node group of the cluster: its
\* OpenStackMachineTemplate, the KubeadmConfigTemplate it uses, its
\* MachineDeployment and the master's KubeadmControlPlane are present after
\* the call if they were before.
C18_DeleteNodegroupOnly ==
    [][ ( /\ Idle
          /\ log'.op = "delete_nodegroup"
          /\ log'.raised = None
          /\ log'.arg \in WorkerIndexes(nodegroups)
          /\ Cardinality(WorkerIndexes(nodegroups)) > 1 ) =>
            \A i \in DOMAIN nodegroups \ {log'.arg} :
                ResourcesOf(State, i) \cap k8s \subseteq k8s' ]_vars


\* The namespace and the six config-map and resource-set objects that
\* create_cluster applies before it issues the credential.
ConfigKinds ==
    { "Namespace",
      "CloudControllerManagerConfigMap", "CloudControllerManagerClusterResourceSet",
      "CalicoConfigMap", "CalicoClusterResourceSet",
      "CinderCSIConfigMap", "CinderCSIClusterResourceSet" }

\* C19: a create_cluster call made while the credential of the cluster exists
\* raises; when the error is the refusal of the credential, the namespace and
\* the six config objects have all been applied; the call does nothing but
\* apply these objects (no secret, node group resource, OpenStackCluster or
\* Cluster object, no credential), the credential is still the one that
\* existed, and the cluster and its persisted record are unchanged.
C19_CreateWithCredentialFails ==
    [][ (Idle /\ log'.op = "create_cluster" /\ credential) =>
            /\ log'.raised # None
            /\ \A j \in DOMAIN log'.events :
                  /\ log'.events[j].op = "apply"
                  /\ log'.events[j].kind \in ConfigKinds
            /\ log'.raised = "Conflict" =>
                  \A kind \in ConfigKinds : Has(log'.events, "apply", kind)
            /\ credential'
            /\ cluster' = cluster
            /\ db' = db
            /\ nodegroups' = nodegroups ]_vars

\* A create_cluster call on a cluster that has its credential was refused the
\* credential, after applying the seven config objects.
C19_Witness ==
    /\ log.op = "create_cluster"
    /\ log.raised = "Conflict"
    /\ Len(log.events) = Cardinality(ConfigKinds)
    /\ credential
    /\ Res("Cluster", 0) \in k8s


\* C20: a refresh never changes the status of the cluster, or of its
\* persisted record, to a *_FAILED one; and a refresh of a CREATE_IN_PROGRESS
\* or UPDATE_IN_PROGRESS cluster that leaves a node group with a status other
\* than CREATE_COMPLETE or UPDATE_COMPLETE (a worker it refreshed to *_FAILED
\* on phase Failed or Unknown, or one that was so before) leaves the status of
\* the cluster and of its record as they were.
C20_NeverFailedByRefresh ==
    [][ RefreshStep =>
            /\ cluster'.status # cluster.status => ~IsFailed(cluster'.status)
            /\ db'.status # db.status => ~IsFailed(db'.status)
            /\ ( /\ cluster.status \in {CREATE_IN_PROGRESS, UPDATE_IN_PROGRESS}
                 /\ \E i \in DOMAIN nodegroups' :
                       nodegroups'[i].status \notin {CREATE_COMPLETE, UPDATE_COMPLETE} ) =>
                  /\ cluster'.status = cluster.status
                  /\ db'.status = db.status ]_vars

\* A refresh of a cluster in progress has read phase Failed or Unknown for a
\* worker, set that node group to *_FAILED, and left the cluster in progress.
C20_Witness ==
    /\ log.op = "update_cluster_status"
    /\ log.raised = None
    /\ IsInProgress(cluster.status)
    /\ db.status = cluster.status
    /\ \E j \in DOMAIN log.events :
          /\ log.events[j].op = "ng_set_status"
          /\ IsFailed(log.events[j].val)
          /\ nodegroups[log.events[j].ng].role # "master"
          /\ IsFailed(nodegroups[log.events[j].ng].status)

====
